---- MODULE Spec2Model ----
(***************************************************************************)
(* rpz_processor: lib/processor.py (RpzProcessor) and lib/converter.py     *)
(* (the three RpzConverter strategies), driven as main.py's __main__       *)
(* drives them: construct the processor, read the allow-list unless -a is  *)
(* '-', import the list once.                                              *)
(*                                                                         *)
(* A Python str is a sequence of one-character strings, so that strip,     *)
(* split, join, replace and slicing are computed character by character    *)
(* as the library does.  A text file or an HTTP response body is a         *)
(* sequence of lines (each without its line terminator); the output file   *)
(* is the sequence of characters written to it.                            *)
(***************************************************************************)
EXTENDS Integers, Sequences, FiniteSets, TLC

(***************************************************************************)
(* Bounds of the exploration                                               *)
(***************************************************************************)
\* number of labels of an enumerated domain name
MaxLabels == 3
\* number of lines of an enumerated allow-list file
MaxRules == 1
\* number of lines of an enumerated multi-line response body
MaxLines == 2
\* seconds that may pass between the starts of two processes
MaxElapsed == 1

(***************************************************************************)
(* Program constants                                                       *)
(***************************************************************************)
MAX_DOMAIN_LENGTH == 240

(***************************************************************************)
(* Python str primitives                                                   *)
(***************************************************************************)
\* the whitespace characters, restricted to the characters of the model
whitespace == {" ", "\t", "\n"}

\* str.isspace() on one character
isspace(ch) == ch \in whitespace

RECURSIVE lstrip(_)
lstrip(s) == IF s # <<>> /\ isspace(Head(s)) THEN lstrip(Tail(s)) ELSE s

RECURSIVE rstrip(_)
rstrip(s) ==
    IF s # <<>> /\ isspace(s[Len(s)]) THEN rstrip(SubSeq(s, 1, Len(s) - 1)) ELSE s

\* str.strip()
strip(s) == rstrip(lstrip(s))

\* str.startswith(p), also the slice comparison line[0:2] == p
startswith(s, p) == Len(s) >= Len(p) /\ SubSeq(s, 1, Len(p)) = p

\* the index of the first character of s that is in chars, Len(s)+1 if none
FirstIndex(s, chars) ==
    IF \E i \in 1..Len(s) : s[i] \in chars
    THEN CHOOSE i \in 1..Len(s) : s[i] \in chars /\ \A j \in 1..(i - 1) : s[j] \notin chars
    ELSE Len(s) + 1

\* str.split(sep) for a one-character sep: empty fields are kept
RECURSIVE split_sep(_, _)
split_sep(s, sep) ==
    LET i == FirstIndex(s, {sep})
    IN  IF i > Len(s)
        THEN <<s>>
        ELSE <<SubSeq(s, 1, i - 1)>> \o split_sep(SubSeq(s, i + 1, Len(s)), sep)

\* str.split() without argument: runs of whitespace separate, no empty fields
RECURSIVE split(_)
split(s) ==
    LET t == lstrip(s)
        n == FirstIndex(t, whitespace)
    IN  IF t = <<>>
        THEN <<>>
        ELSE <<SubSeq(t, 1, n - 1)>> \o split(SubSeq(t, n, Len(t)))

\* sep.join(parts)
RECURSIVE join(_, _)
join(parts, sep) ==
    IF parts = <<>> THEN <<>>
    ELSE IF Len(parts) = 1 THEN parts[1]
    ELSE parts[1] \o sep \o join(Tail(parts), sep)

\* str.replace(old, new, 1) for one-character old and new
replace_first(s, old, new) ==
    LET i == FirstIndex(s, {old})
    IN  IF i > Len(s) THEN s ELSE [s EXCEPT ![i] = new]

\* str(n) of a non-negative int
RECURSIVE str(_)
str(n) ==
    LET digit(d) == <<"0", "1", "2", "3", "4", "5", "6", "7", "8", "9">>[d + 1]
    IN  IF n < 10 THEN <<digit(n)>> ELSE str(n \div 10) \o <<digit(n % 10)>>

(***************************************************************************)
(* lib/converter.py                                                        *)
(***************************************************************************)
\* the keys of the converters registry
converters == {"rpz", "domains", "wildcards"}

\* DomainConverter.PREAMBLE, an f-string evaluated once when the class body
\* runs (at import of the module); serial is the value of int(time()) then
PREAMBLE(serial) ==
    <<"$", "T", "T", "L", " ", "2", "h", "\n",
      "@", " ", "I", "N", " ", "S", "O", "A", " ",
      "l", "o", "c", "a", "l", "h", "o", "s", "t", ".", " ",
      "r", "o", "o", "t", ".", "l", "o", "c", "a", "l", "h", "o", "s", "t", ".",
      " ", "(">>
    \o str(serial) \o
    <<" ", "6", "h", " ", "1", "h", " ", "1", "w", " ", "2", "h", ")", "\n",
      " ", " ", "I", "N", " ", "N", "S", " ", " ",
      "l", "o", "c", "a", "l", "h", "o", "s", "t", ".", "\n">>

\* the text ' CNAME .\n'
CNAME_ACTION == <<" ", "C", "N", "A", "M", "E", " ", ".", "\n">>

\* before_writing(output) of the converter registered as conv
before_writing(conv, serial, out) ==
    IF conv = "rpz" THEN out ELSE out \o PREAMBLE(serial) \o <<"\n">>

\* after_writing(output): pass in every converter
after_writing(conv, out) == out

\* should_passthru with '@' left out of the tuple of PassThruRpzConverter
should_passthru_without_at(conv, line) ==
    IF conv = "rpz"
    THEN line[1] \in {";", "$", " "}
    ELSE line[1] \in {";", "#"}

\* should_passthru(line); line is not empty
should_passthru(conv, line) ==
    IF conv = "rpz"
    THEN line[1] \in {";", "$", "@", " "}
    ELSE line[1] \in {";", "#"}

\* split(line) is not empty, so that RpzConverter.extract_domain returns
CanExtract(conv, line) == conv = "rpz" => split(line) # <<>>

\* extract_domain with WildcardDomainConverter's override left out
extract_domain_keeps_wildcard(conv, line) ==
    CASE conv = "rpz" -> split(line)[1]
      [] conv = "domains" -> line
      [] conv = "wildcards" -> line

\* extract_domain(line)
extract_domain(conv, line) ==
    CASE conv = "rpz" -> split(line)[1]
      [] conv = "domains" -> line
      [] conv = "wildcards" ->
            IF startswith(line, <<"*", ".">>) THEN SubSeq(line, 3, Len(line)) ELSE line

\* PassThruRpzConverter.write_line
PassThru_write_line(out, line) == out \o line \o <<"\n">>

\* DomainConverter.write_line with line.replace('#', ';'), every # replaced
Domain_write_line_replace_all(out, line) ==
    IF line[1] = "#"
    THEN out \o [i \in 1..Len(line) |-> IF line[i] = "#" THEN ";" ELSE line[i]] \o <<"\n">>
    ELSE out \o line \o CNAME_ACTION

\* DomainConverter.write_line
Domain_write_line(out, line) ==
    IF line[1] = "#"
    THEN out \o replace_first(line, "#", ";") \o <<"\n">>
    ELSE out \o line \o CNAME_ACTION

\* WildcardDomainConverter.write_line with the bare domain written first
Wildcard_write_line_bare_first(out, line) ==
    IF line[1] = "#"
    THEN out \o replace_first(line, "#", ";") \o <<"\n">>
    ELSE IF startswith(line, <<"*", ".">>)
         THEN out \o SubSeq(line, 3, Len(line)) \o CNAME_ACTION \o line \o CNAME_ACTION
         ELSE out \o line \o CNAME_ACTION

\* WildcardDomainConverter.write_line
Wildcard_write_line(out, line) ==
    IF line[1] = "#"
    THEN out \o replace_first(line, "#", ";") \o <<"\n">>
    ELSE IF startswith(line, <<"*", ".">>)
         THEN out \o line \o CNAME_ACTION \o SubSeq(line, 3, Len(line)) \o CNAME_ACTION
         ELSE out \o line \o CNAME_ACTION

\* write_line(output, line) of the converter registered as conv
write_line(conv, out, line) ==
    CASE conv = "rpz" -> PassThru_write_line(out, line)
      [] conv = "domains" -> Domain_write_line(out, line)
      [] conv = "wildcards" -> Wildcard_write_line(out, line)

(***************************************************************************)
(* lib/processor.py                                                        *)
(***************************************************************************)
\* read_allow_list: the loop over the lines of the file, from the sets
\* [exact, right] it finds
RECURSIVE read_allow_list(_, _)
read_allow_list(file, sets) ==
    IF file = <<>> THEN sets
    ELSE LET line == strip(Head(file))
         IN  IF Len(line) < 2 \/ startswith(line, <<"#">>)
             THEN read_allow_list(Tail(file), sets)
             ELSE IF startswith(line, <<".">>)
             THEN read_allow_list(Tail(file),
                     [exact |-> sets.exact \cup {Tail(line)},
                      right |-> sets.right \cup {Tail(line)}])
             ELSE read_allow_list(Tail(file),
                     [exact |-> sets.exact \cup {line}, right |-> sets.right])

\* len(domain) >= MAX_DOMAIN_LENGTH
too_long_at_limit(domain) == Len(domain) >= MAX_DOMAIN_LENGTH

\* len(domain) > MAX_DOMAIN_LENGTH
too_long(domain) == Len(domain) > MAX_DOMAIN_LENGTH

\* the list comprehension with range(len(segments)): the last segment alone
\* is in the list too
checklist_with_last(segments) ==
    [i \in 1..Len(segments) |->
        join(SubSeq(segments, i, Len(segments)), <<".">>)]

\* the list comprehension of _do_import: the successive right-hand parts of
\* the domain, the last segment alone left out
checklist(segments) ==
    [i \in 1..(Len(segments) - 1) |->
        join(SubSeq(segments, i, Len(segments)), <<".">>)]

\* the tests with the right-hand parts looked up in allow_domains_exact
skipped_right_in_exact(domain, sets) ==
    IF too_long(domain) THEN TRUE
    ELSE IF domain \in sets.exact THEN TRUE
    ELSE LET segments == split_sep(domain, ".")
         IN  IF Len(segments) < 2 THEN TRUE
             ELSE \E i \in 1..Len(checklist(segments)) :
                     checklist(segments)[i] \in sets.exact

\* the tests without the continue on fewer than two segments
skipped_keeps_single_label(domain, sets) ==
    IF too_long(domain) THEN TRUE
    ELSE IF domain \in sets.exact THEN TRUE
    ELSE LET segments == split_sep(domain, ".")
         IN  \E i \in 1..Len(checklist(segments)) :
                checklist(segments)[i] \in sets.right

\* the tests of _do_import on an extracted domain: TRUE when the line is
\* skipped (continue), FALSE when it reaches write_line
skipped(domain, sets) ==
    IF too_long(domain) THEN TRUE
    ELSE IF domain \in sets.exact THEN TRUE
    ELSE LET segments == split_sep(domain, ".")
         IN  IF Len(segments) < 2 THEN TRUE
             ELSE \E i \in 1..Len(checklist(segments)) :
                     checklist(segments)[i] \in sets.right

\* the for loop of _do_import over the lines of the response: the output and
\* whether an IndexError of extract_domain ended the loop
RECURSIVE import_lines(_, _, _, _)
import_lines(conv, sets, lines, out) ==
    IF lines = <<>> THEN [output |-> out, raised |-> FALSE]
    ELSE LET line == Head(lines)
         IN  IF line = <<>>
             THEN import_lines(conv, sets, Tail(lines), out)
             ELSE IF should_passthru(conv, line)
             THEN import_lines(conv, sets, Tail(lines), write_line(conv, out, line))
             ELSE IF ~CanExtract(conv, line)
             THEN [output |-> out, raised |-> TRUE]
             ELSE IF skipped(extract_domain(conv, line), sets)
             THEN import_lines(conv, sets, Tail(lines), out)
             ELSE import_lines(conv, sets, Tail(lines), write_line(conv, out, line))

\* open(output_file, 'a'): the file keeps its contents
open_a(file) == file

\* open(output_file, 'w'): the contents of the file once it is opened
open_w(file) == <<>>

\* _do_import: the file is opened 'w', before_writing, the loop, after_writing
\* (not reached when the loop raised)
_do_import(conv, serial, sets, lines, file) ==
    LET r == import_lines(conv, sets, lines, before_writing(conv, serial, open_w(file)))
    IN  IF r.raised THEN r ELSE [output |-> after_writing(conv, r.output), raised |-> FALSE]

(***************************************************************************)
(* The inputs: domain names, response lines, allow-list files              *)
(***************************************************************************)
\* n times the character ch
Rep(ch, n) == [i \in 1..n |-> ch]

Labels == {<<"a">>, <<"a", "a">>}

\* the names of 1..n labels
ProperDomains(n) ==
    {join(ls, <<".">>) : ls \in UNION {[1..k -> Labels] : k \in 1..n}}

\* names with empty labels, and the empty name
OddDomains == {<<>>, <<".">>, <<"a", ".">>, <<".", "a">>, <<"a", ".", ".", "a">>}

\* names of MAX_DOMAIN_LENGTH and MAX_DOMAIN_LENGTH + 1 characters, of two
\* and of three labels
LongDomains ==
    {Rep("a", n - Len(t)) \o t :
        n \in {MAX_DOMAIN_LENGTH, MAX_DOMAIN_LENGTH + 1},
        t \in {<<".", "a">>, <<".", "a", ".", "a">>}}

Domains == ProperDomains(MaxLabels) \cup OddDomains \cup LongDomains

\* the first characters that some converter passes through
Markers == {"#", ";", "$", "@", " "}

\* one line of a response body
InputLines ==
    Domains
    \cup {<<"*", ".">> \o d : d \in Domains}
    \cup {d \o <<" ">> \o SubSeq(CNAME_ACTION, 2, 8) :
            d \in ProperDomains(2) \cup LongDomains}
    \cup {<<m>> \o d : m \in Markers, d \in {<<"a">>, <<"a", ".", "a", ".", "a">>}}
    \cup {<<"#", "a", "#", "a">>, <<"\t">>, <<"\t", "a", ".", "a">>}

\* one line of an allow-list file: exact rules, suffix rules, a comment, a
\* rule with surrounding whitespace, a rule that looks like a comment of the
\* response
RuleLines ==
    LET ds == ProperDomains(2) \cup {<<"a", ".", "a", ".", "a">>}
                \cup (OddDomains \ {<<"a", ".", ".", "a">>})
    IN  ds \cup {<<".">> \o d : d \in ds}
        \cup {<<"#", "a", ".", "a">>, <<" ", ".", "a", ".", "a", "\n">>, <<";", "a">>}

\* the sequences of at most n elements of S
SeqsUpTo(S, n) == UNION {[1..k -> S] : k \in 0..n}

\* the allow-list files
AllowFiles == SeqsUpTo(RuleLines, MaxRules)

\* the response bodies of one line
OneLineBodies == {<<l>> : l \in InputLines}

\* the lines of the longer response bodies
FewLines ==
    {<<>>, <<";", "a">>, <<"$", "a">>, <<"#", "a">>, <<"a", ".", "a">>,
     <<"*", ".", "a", ".", "a">>,
     <<"a", ".", "a", " ", "C", "N", "A", "M", "E", " ", ".">>}

\* the longer response bodies
LongerBodies == SeqsUpTo(FewLines, MaxLines)

\* the allow-list files tried with the longer response bodies
FewFiles == {<<>>, << <<".", "a", ".", "a">> >>, << <<"a", ".", "a">> >>}

(***************************************************************************)
(* State                                                                   *)
(***************************************************************************)
VARIABLES
    args_a,                \* "-" (no allow-list) or "file": main.py's -a
    allow_list_file,       \* the lines of the allow-list file
    request,               \* the lines of the response of rpz_url
    converter,             \* RpzProcessor.converter, a key of converters
    serial,                \* int(time()) when this process defined PREAMBLE
    allow_domains_exact,   \* RpzProcessor.allow_domains_exact
    allow_domains_right,   \* RpzProcessor.allow_domains_right
    output,                \* the contents of output_file
    pc,                    \* "start", "loaded", "done", "raised"
    prev,                  \* <<>>, or the one record of the run before this
    called,                \* the instances read_allow_list was called on
    importer               \* the instance whose import_rpz_list ran, or "none"

vars == <<args_a, allow_list_file, request, converter, serial,
          allow_domains_exact, allow_domains_right, output, pc, prev,
          called, importer>>

\* the RpzProcessor instances of a process: main.py's processor, and a second
\* instance constructed with the same converter
Processors == {"processor", "other"}

\* self.allow_domains_exact and self.allow_domains_right of instance p:
\* __init__ binds only self.converter and read_allow_list only calls .add on
\* what the lookup finds, so for every instance the lookup ends at the two
\* sets that are attributes of the class
self_allow_domains(p) ==
    [exact |-> allow_domains_exact, right |-> allow_domains_right]

env == <<args_a, allow_list_file, request, converter>>

\* the process has constructed RpzProcessor(converter_choice(args.c))
Started ==
    /\ converter \in converters
    /\ serial = 9
    /\ allow_domains_exact = {}
    /\ allow_domains_right = {}
    /\ output = <<>>
    /\ pc = "start"
    /\ prev = <<>>
    /\ called = {}
    /\ importer = "none"

\* the allow-list argument: '-' or a file
AllowArg(files) ==
    \/ args_a = "-" /\ allow_list_file = <<>>
    \/ args_a = "file" /\ allow_list_file \in files

Init ==
    /\ \/ request \in OneLineBodies /\ AllowArg(AllowFiles)
       \/ request \in LongerBodies /\ AllowArg(FewFiles)
    /\ Started

\* the runs compared with a second run: the longer bodies only
InitTwice ==
    /\ request \in LongerBodies
    /\ AllowArg(FewFiles)
    /\ Started

(***************************************************************************)
(* Actions                                                                 *)
(***************************************************************************)
\* main.py: processor.read_allow_list(args.a), unless args.a is '-'
ReadAllowList ==
    /\ pc = "start"
    /\ args_a = "file"
    /\ LET sets == read_allow_list(allow_list_file,
                       [exact |-> allow_domains_exact, right |-> allow_domains_right])
       IN  /\ allow_domains_exact' = sets.exact
           /\ allow_domains_right' = sets.right
    /\ pc' = "loaded"
    /\ called' = called \cup {"processor"}
    /\ UNCHANGED <<env, serial, output, prev, importer>>

\* processor.import_rpz_list(url, args.o): _do_import to its end, or to the
\* IndexError that import_rpz_list does not catch
ImportRpzList ==
    /\ \/ pc = "loaded"
       \/ pc = "start" /\ args_a = "-"
    /\ LET r == _do_import(converter, serial,
                   [exact |-> allow_domains_exact, right |-> allow_domains_right],
                   request, output)
       IN  /\ output' = r.output
           /\ pc' = IF r.raised THEN "raised" ELSE "done"
    /\ importer' = "processor"
    /\ UNCHANGED <<env, serial, allow_domains_exact, allow_domains_right, prev, called>>

\* the run as it is remembered when a second run starts
ThisRun ==
    [serial |-> serial, exact |-> allow_domains_exact,
     right |-> allow_domains_right, output |-> output]

\* import_rpz_list called once more on the same processor, in the same process
ImportAgain ==
    /\ pc = "done"
    /\ prev = <<>>
    /\ prev' = <<ThisRun>>
    /\ LET r == _do_import(converter, serial,
                   [exact |-> allow_domains_exact, right |-> allow_domains_right],
                   request, output)
       IN  /\ output' = r.output
           /\ pc' = IF r.raised THEN "raised" ELSE "done"
    /\ UNCHANGED <<env, serial, allow_domains_exact, allow_domains_right,
                   called, importer>>

\* the same command line started once more: a new process imports the
\* modules (PREAMBLE is evaluated again, the class attributes are new sets);
\* the output file of the first run is still on disk
Restart ==
    /\ pc = "done"
    /\ prev = <<>>
    /\ prev' = <<ThisRun>>
    /\ \E elapsed \in 0..MaxElapsed : serial' = serial + elapsed
    /\ allow_domains_exact' = {}
    /\ allow_domains_right' = {}
    /\ pc' = "start"
    /\ called' = {}
    /\ importer' = "none"
    /\ UNCHANGED <<env, output>>

Next == ReadAllowList \/ ImportRpzList

Spec == Init /\ [][Next]_vars

NextTwice == ReadAllowList \/ ImportRpzList \/ ImportAgain \/ Restart

SpecTwice == InitTwice /\ [][NextTwice]_vars

\* other.read_allow_list(file) on the second instance, before processor's
\* import: the rules are added to the sets the instance's lookup finds
OtherReadAllowList ==
    /\ pc \in {"start", "loaded"}
    /\ "other" \notin called
    /\ \E file \in FewFiles :
          LET sets == read_allow_list(file, self_allow_domains("other"))
          IN  /\ allow_domains_exact' = sets.exact
              /\ allow_domains_right' = sets.right
    /\ called' = called \cup {"other"}
    /\ UNCHANGED <<env, serial, output, pc, prev, importer>>

\* other.import_rpz_list(url, args.o) on the second instance
OtherImportRpzList ==
    /\ pc \in {"start", "loaded"}
    /\ LET r == _do_import(converter, serial, self_allow_domains("other"),
                   request, output)
       IN  /\ output' = r.output
           /\ pc' = IF r.raised THEN "raised" ELSE "done"
    /\ importer' = "other"
    /\ UNCHANGED <<env, serial, allow_domains_exact, allow_domains_right, prev, called>>

NextProcessors ==
    ReadAllowList \/ ImportRpzList \/ OtherReadAllowList \/ OtherImportRpzList

\* one process with two RpzProcessor instances
SpecProcessors == Init /\ [][NextProcessors]_vars

(***************************************************************************)
(* Vocabulary of the properties                                            *)
(***************************************************************************)
\* the characters of s contain a dot
HasDot(s) == \E i \in 1..Len(s) : s[i] = "."

\* s ends with p
endswith(s, p) == Len(s) >= Len(p) /\ SubSeq(s, Len(s) - Len(p) + 1, Len(s)) = p

\* the run is over and the response was one line, not empty
OneLineDone == pc = "done" /\ Len(request) = 1 /\ request[1] # <<>>

TheLine == request[1]

\* the one line was not passed through: its domain was extracted and tested
CandidateDone == OneLineDone /\ ~should_passthru(converter, TheLine)

TheDomain == extract_domain(converter, TheLine)

\* what before_writing left in the file
Header == before_writing(converter, serial, <<>>)

\* nothing was written for the one line
Dropped == output = Header

\* the one line was handed to write_line
Written == output = write_line(converter, Header, TheLine) /\ output # Header

\* the allow-list file was read and holds one line, whose stripped text is t
OneRule(t) ==
    /\ args_a = "file"
    /\ Len(allow_list_file) = 1
    /\ strip(allow_list_file[1]) = t

\* the allow-list file was read and its one line is the suffix rule .d
OnlySuffixRule(d) == d # <<>> /\ OneRule(<<".">> \o d)

\* the allow-list file was read and its one line is the exact rule d
OnlyExactRule(d) == Len(d) >= 2 /\ d[1] \notin {".", "#"} /\ OneRule(d)

\* the domains that a one-line allow-list file can name
RuleDomains == {strip(r) : r \in RuleLines} \cup {Tail(strip(r)) : r \in RuleLines \ {<<>>}}

\* c is d or ends with '.'+d
SuffixOf(c, d) == c = d \/ endswith(c, <<".">> \o d)

(***************************************************************************)
(* C1                                                                      *)
(***************************************************************************)
\* C1 as stated: with the suffix rule .d alone (any non-empty d), a candidate
\* of at most 240 characters is dropped exactly when it is d or ends with
\* '.'+d.
C1_AsStated ==
    \A d \in RuleDomains :
        (CandidateDone /\ OnlySuffixRule(d) /\ Len(TheDomain) <= MAX_DOMAIN_LENGTH)
            => (Dropped <=> SuffixOf(TheDomain, d))

\* C1 amended: with the suffix rule .d alone, a candidate c of at most 240
\* characters is dropped exactly when c = d, or c has no dot, or d has a dot
\* and c ends with '.'+d; otherwise its line is handed to write_line.
C1_SuffixMatch ==
    \A d \in RuleDomains :
        (CandidateDone /\ OnlySuffixRule(d) /\ Len(TheDomain) <= MAX_DOMAIN_LENGTH)
            => /\ Dropped <=> \/ TheDomain = d
                              \/ ~HasDot(TheDomain)
                              \/ HasDot(d) /\ endswith(TheDomain, <<".">> \o d)
               /\ Dropped \/ Written

\* a subdomain of the two-label suffix rule was dropped
C1_Witness ==
    /\ CandidateDone
    /\ OnlySuffixRule(<<"a", ".", "a">>)
    /\ TheDomain = <<"a", "a", ".", "a", ".", "a">>
    /\ Dropped

(***************************************************************************)
(* C2                                                                      *)
(***************************************************************************)
\* C2: with the exact rule d alone, the candidate d is dropped, and every
\* other candidate of at most 240 characters that has a dot (every subdomain
\* x.d among them) is handed to write_line.
C2_ExactMatch ==
    \A d \in RuleDomains :
        (CandidateDone /\ OnlyExactRule(d))
            => /\ TheDomain = d => Dropped
               /\ (TheDomain # d /\ HasDot(TheDomain)
                      /\ Len(TheDomain) <= MAX_DOMAIN_LENGTH) => Written

\* a subdomain of the exact rule was written
C2_Witness ==
    /\ CandidateDone
    /\ OnlyExactRule(<<"a", ".", "a">>)
    /\ TheDomain = <<"a", "a", ".", "a", ".", "a">>
    /\ Written

(***************************************************************************)
(* C3                                                                      *)
(***************************************************************************)
\* C3 as stated: a candidate without a dot that is not in the exact set is
\* not allow-listed and its line is handed to write_line.
C3_AsStated ==
    (CandidateDone /\ ~HasDot(TheDomain) /\ TheDomain \notin allow_domains_exact)
        => Written

\* C3 amended: a candidate without a dot is never matched against the suffix
\* rules, and its line is dropped (write_line is not called for it) whatever
\* the allow-list contains.
C3_SingleLabelDropped ==
    (CandidateDone /\ ~HasDot(TheDomain)) => Dropped

\* a single label that no rule names was dropped, a suffix rule being loaded
C3_Witness ==
    /\ CandidateDone
    /\ TheDomain = <<"a", "a">>
    /\ allow_domains_right = {<<"a", ".", "a">>}
    /\ TheDomain \notin allow_domains_exact
    /\ Dropped

(***************************************************************************)
(* C4                                                                      *)
(***************************************************************************)
\* the allow-list names c: c is in the exact set, or ends with '.'+d for a
\* suffix rule d that has a dot
AllowListed(c) ==
    \/ c \in allow_domains_exact
    \/ \E d \in allow_domains_right : HasDot(d) /\ endswith(c, <<".">> \o d)

\* C4: for every converter and allow-list, a candidate longer than 240
\* characters is never written; a candidate of exactly 240 characters is
\* written unless the allow-list names it or it has no dot.
C4_OversizedDrop ==
    CandidateDone
        => /\ Len(TheDomain) > MAX_DOMAIN_LENGTH => Dropped
           /\ (Len(TheDomain) = MAX_DOMAIN_LENGTH /\ HasDot(TheDomain)
                  /\ ~AllowListed(TheDomain)) => Written

\* a name of 241 characters with a dot was dropped with no allow-list
C4_Witness ==
    /\ CandidateDone
    /\ args_a = "-"
    /\ Len(TheDomain) = MAX_DOMAIN_LENGTH + 1
    /\ HasDot(TheDomain)
    /\ Dropped

(***************************************************************************)
(* C5                                                                      *)
(***************************************************************************)
\* C5: with the 'wildcards' converter, a candidate line *.d that is not
\* dropped gives exactly the two records '*.d CNAME .' and 'd CNAME .', in
\* that order, and a candidate line without the *. prefix that is not dropped
\* gives exactly the one record 'line CNAME .'.
C5_DualEmission ==
    (CandidateDone /\ converter = "wildcards" /\ ~Dropped)
        => IF Len(TheLine) >= 2 /\ TheLine[1] = "*" /\ TheLine[2] = "."
           THEN output = Header \o TheLine \o CNAME_ACTION
                           \o Tail(Tail(TheLine)) \o CNAME_ACTION
           ELSE output = Header \o TheLine \o CNAME_ACTION

\* the line *.aa.a gave its two records
C5_Witness ==
    /\ CandidateDone
    /\ converter = "wildcards"
    /\ TheLine = <<"*", ".", "a", "a", ".", "a">>
    /\ output = Header \o <<"*", ".", "a", "a", ".", "a">> \o CNAME_ACTION
                  \o <<"a", "a", ".", "a">> \o CNAME_ACTION

(***************************************************************************)
(* C6                                                                      *)
(***************************************************************************)
\* C6: with the 'wildcards' converter, an input line *.d whose bare domain d
\* the allow-list names (an exact rule d, or a suffix rule matching d) gives
\* no output line at all.
C6_AllowListSuppressesWildcard ==
    \A d \in Domains :
        (OneLineDone /\ converter = "wildcards" /\ TheLine = <<"*", ".">> \o d
            /\ AllowListed(d)) => output = Header

\* *.a.a was dropped by the exact rule a.a
C6_Witness ==
    /\ OneLineDone
    /\ converter = "wildcards"
    /\ TheLine = <<"*", ".", "a", ".", "a">>
    /\ OnlyExactRule(<<"a", ".", "a">>)
    /\ output = Header

(***************************************************************************)
(* C7                                                                      *)
(***************************************************************************)
\* C7: with the 'domains' converter, a candidate line that survives the
\* filter is written as the line, ' CNAME .' and one newline; a line that
\* starts with # is written with that # replaced by ; and the rest
\* unchanged, plus one newline, whatever the allow-list holds.
C7_DomainListConversion ==
    (OneLineDone /\ converter = "domains")
        => /\ (~should_passthru(converter, TheLine) /\ ~Dropped)
                 => output = Header \o TheLine \o CNAME_ACTION
           /\ TheLine[1] = "#"
                 => output = Header \o <<";">> \o Tail(TheLine) \o <<"\n">>

\* the comment #a.a.a was written as ;a.a.a although the suffix rule .a.a
\* would match a.a.a
C7_Witness ==
    /\ OneLineDone
    /\ converter = "domains"
    /\ OnlySuffixRule(<<"a", ".", "a">>)
    /\ TheLine = <<"#", "a", ".", "a", ".", "a">>
    /\ output = Header \o <<";", "a", ".", "a", ".", "a", "\n">>

(***************************************************************************)
(* C8                                                                      *)
(***************************************************************************)
\* C8: with the 'domains' and 'wildcards' converters, an input line that
\* starts with ; is written exactly as read, followed by one newline.
C8_PassthroughVerbatim ==
    (OneLineDone /\ converter \in {"domains", "wildcards"} /\ TheLine[1] = ";")
        => output = Header \o TheLine \o <<"\n">>

\* ;a.a.a was written as read although the suffix rule .a.a was loaded
C8_Witness ==
    /\ OneLineDone
    /\ converter = "wildcards"
    /\ OnlySuffixRule(<<"a", ".", "a">>)
    /\ TheLine = <<";", "a", ".", "a", ".", "a">>
    /\ output = Header \o <<";", "a", ".", "a", ".", "a", "\n">>

(***************************************************************************)
(* C9                                                                      *)
(***************************************************************************)
\* the first whitespace-delimited token of the line has a dot and at most
\* 240 characters
FirstTokenIsDomain(l) ==
    \E i \in 1..Len(l) :
        /\ \A k \in 1..(i - 1) : isspace(l[k])
        /\ ~isspace(l[i])
        /\ \E j \in i..Len(l) :
              /\ j = Len(l) \/ isspace(l[j + 1])
              /\ j - i + 1 <= MAX_DOMAIN_LENGTH
              /\ \A k \in i..j : ~isspace(l[k])
              /\ \E k \in i..j : l[k] = "."

\* a directive or comment line, or a record line of a multi-label domain
RoundTripLine(l) == l[1] \in {";", "$", "@", " "} \/ FirstTokenIsDomain(l)

\* the non-empty lines, each followed by one newline
RECURSIVE LinesWithNewlines(_)
LinesWithNewlines(lines) ==
    IF lines = <<>> THEN <<>>
    ELSE IF Head(lines) = <<>> THEN LinesWithNewlines(Tail(lines))
    ELSE Head(lines) \o <<"\n">> \o LinesWithNewlines(Tail(lines))

\* C9: with the 'rpz' converter and an empty allow-list, a response made of
\* directive or comment lines, record lines whose first token is a
\* multi-label domain of at most 240 characters, and empty lines, is written
\* as its non-empty lines, unchanged and in order, each followed by one
\* newline, and nothing else.
C9_PassThroughRoundTrip ==
    (/\ pc = "done"
     /\ converter = "rpz"
     /\ allow_domains_exact = {} /\ allow_domains_right = {}
     /\ \A i \in 1..Len(request) : request[i] = <<>> \/ RoundTripLine(request[i]))
        => output = LinesWithNewlines(request)

\* a directive and a record came out unchanged, in order
C9_Witness ==
    /\ pc = "done"
    /\ converter = "rpz"
    /\ allow_domains_exact = {} /\ allow_domains_right = {}
    /\ request = << <<"$", "a">>,
                    <<"a", ".", "a", " ", "C", "N", "A", "M", "E", " ", ".">> >>
    /\ output = <<"$", "a", "\n",
                  "a", ".", "a", " ", "C", "N", "A", "M", "E", " ", ".", "\n">>

(***************************************************************************)
(* C10                                                                     *)
(***************************************************************************)
\* a second run on the same response, the same allow-list and the same
\* converter is over
SecondRunDone ==
    /\ prev # <<>>
    /\ pc = "done"
    /\ prev[1].exact = allow_domains_exact
    /\ prev[1].right = allow_domains_right

\* the output without the first n characters
After(out, n) == SubSeq(out, n + 1, Len(out))

\* C10 as stated: the second run's output is byte-identical to the first
\* run's, for each of the three converters, preamble included.
C10_AsStated == SecondRunDone => output = prev[1].output

\* C10 amended: the second run's output is byte-identical to the first run's
\* with the 'rpz' converter, and with 'domains' and 'wildcards' when both
\* runs write the same PREAMBLE serial (the same process, or two processes
\* that imported the converter module in the same second); when the serials
\* differ the two outputs are identical after their preambles.
C10_Idempotence ==
    SecondRunDone
        => /\ (converter = "rpz" \/ serial = prev[1].serial) => output = prev[1].output
           /\ After(output, Len(Header))
                = After(prev[1].output, Len(before_writing(converter, prev[1].serial, <<>>)))

\* a second run with the same serial dropped the allow-listed *.a.a again and
\* wrote the same comment after the same preamble
C10_Witness ==
    /\ SecondRunDone
    /\ converter = "wildcards"
    /\ allow_domains_exact = {<<"a", ".", "a">>}
    /\ serial = prev[1].serial
    /\ request = << <<"*", ".", "a", ".", "a">>, <<"#", "a">> >>
    /\ output = prev[1].output
    /\ Len(output) > Len(Header)

(***************************************************************************)
(* C11                                                                     *)
(***************************************************************************)
\* the output of a run with an empty allow-list
OutputWithoutAllowList ==
    _do_import(converter, serial, [exact |-> {}, right |-> {}], request, <<>>).output

\* C11: the allow-list of an RpzProcessor is built only by its own
\* read_allow_list calls: whatever was read on another instance, an instance
\* on which read_allow_list was never called filters with an empty
\* allow-list, so its import writes what a run with empty exact and suffix
\* sets writes.
C11_AllowListIsolation ==
    \A p \in Processors :
        (pc = "done" /\ importer = p /\ p \notin called)
            => output = OutputWithoutAllowList

====
